---- MODULE Spec2Model ----
(***************************************************************************)
(* Model of the restaurant cost calculator:                                *)
(*   src/src/price_manager.py    PriceManager (the price store)            *)
(*   src/src/cost_calculator.py  calculate_dish_cost / calculate_course_cost*)
(*   src/src/menu_definitions.py the menu catalog                          *)
(*   src/src/data_validator.py   validate_ingredient_data                  *)
(*                                                                         *)
(* Strings of the source that are not ASCII are romanised; the original is *)
(* given in the comment next to each.                                      *)
(***************************************************************************)
EXTENDS Integers, Sequences, FiniteSets, TLC

VARIABLES
    pc,           \* "new": PriceManager not constructed yet; "ready"; "failed"
    heap,         \* the dict objects alive: object id -> mapping
    self_prices,  \* PriceManager.prices: the id of the dict it refers to (0: none)
    dataFile,     \* the file at data_path
    historyFile,  \* the file at history_path
    backups,      \* the files at data_path + suffix, per suffix
    handle,       \* what a caller got from get_prices(): [ref, seen]
    clock,        \* datetime.now(), a logical time that advances with every call
    last,         \* the last call and its outcome
    atBackup,     \* get_prices() as it was when backup_prices(s) last succeeded
    held,         \* the (key, value) pairs the store has held since it was last loaded
    menu,         \* the catalog: the module-level dicts of menu_definitions.py
    snapshot,     \* the ingredient_prices mapping given to the cost functions
    calc,         \* the last cost calculation: the call and what it returned
    loaded,       \* the last load_ingredient_prices: the file and what came of it
    audit         \* the last validate_ingredient_data: the sets and what it returned

storeVars == <<pc, heap, self_prices, dataFile, historyFile, backups, handle,
               clock, last, atBackup, held>>
costVars == <<menu, snapshot, calc, loaded, audit>>
vars == <<storeVars, costVars>>

-----------------------------------------------------------------------------
(* Bounds of the model *)

\* calls made on one PriceManager
MaxCalls == 5
\* ingredients whose price a snapshot lacks
MaxMissing == 1
\* drinks selected with one course
MaxDrinks == 2
\* calls made on the PriceManagers of one run with faults
MaxIOCalls == 4

-----------------------------------------------------------------------------
(* JSON values and dicts *)

\* A JSON number (int or float of Python); amounts are whole numbers here.
Num(n) == [kind |-> "num", n |-> n, s |-> ""]
\* A JSON string, such as "invalid_price".
Str(s) == [kind |-> "str", n |-> 0, s |-> s]

\* isinstance(value, (int, float))
IsNumber(v) == v.kind = "num"

\* "食材マスタ", the descriptive key of the price file
MASTER_KEY == "shokuzai_master"

Keys == {"X", "Y", MASTER_KEY}
Values == {Num(10), Num(20), Num(-5), Str("bad_data")}

EmptyDict == <<>>

\* d.update(e)
DictUpdate(d, e) ==
    [k \in (DOMAIN d) \cup (DOMAIN e) |-> IF k \in DOMAIN e THEN e[k] ELSE d[k]]

\* del d[k]
DictDel(d, k) == [x \in (DOMAIN d) \ {k} |-> d[x]]

\* The candidate maps given to update_prices: every value for one key, the
\* empty map, maps of two keys (valid, and valid next to invalid), and maps
\* that name the descriptive key.
Candidates ==
    [{"X"} -> Values]
    \cup { EmptyDict,
           ("Y" :> Num(20)),
           ("Y" :> Str("bad_data")),
           ("X" :> Num(20)) @@ ("Y" :> Num(10)),
           ("X" :> Str("bad_data")) @@ ("Y" :> Num(10)),
           (MASTER_KEY :> Num(10)),
           (MASTER_KEY :> Str("desc")) @@ ("X" :> Num(20)) }

-----------------------------------------------------------------------------
(* Files *)

\* A file is absent, holds text that is not JSON, or holds a JSON document.
AbsentFile == [st |-> "absent", data |-> EmptyDict]
MalformedFile == [st |-> "malformed", data |-> EmptyDict]
JsonFile(d) == [st |-> "ok", data |-> d]

\* os.path.exists(path)
Exists(f) == f.st # "absent"

Suffixes == {".bak", ".old"}

\* The price files a PriceManager may find at data_path when it is constructed.
InitialDataFiles ==
    { AbsentFile, MalformedFile,
      JsonFile((MASTER_KEY :> Str("desc")) @@ ("X" :> Num(10))),
      JsonFile((MASTER_KEY :> Str("desc")) @@ ("X" :> Num(10)) @@ ("Y" :> Str("bad_data"))),
      JsonFile(("X" :> Num(-5)) @@ ("Y" :> Num(20))) }

\* The history files it may find at history_path.
InitialHistoryFiles == { AbsentFile, MalformedFile, JsonFile(<<>>) }

-----------------------------------------------------------------------------
(* PriceManager: the helpers, as functions of what they read *)

\* _validate_prices(data): (validated_data, errors); errors holds the keys
\* whose value is not a number.
_validate_prices(data) ==
    [ validated_data |-> [k \in {x \in DOMAIN data : IsNumber(data[x])} |-> data[k]],
      errors         |-> {x \in DOMAIN data : ~IsNumber(data[x])} ]

\* _load_prices with the JSONDecodeError left uncaught.
_load_prices_uncaught(f) ==
    IF ~Exists(f) THEN [raised |-> FALSE, prices |-> EmptyDict]
    ELSE IF f.st = "malformed" THEN [raised |-> TRUE, prices |-> EmptyDict]
    ELSE [ raised |-> FALSE,
           prices |-> _validate_prices(
                          IF MASTER_KEY \in DOMAIN f.data
                          THEN DictDel(f.data, MASTER_KEY) ELSE f.data).validated_data ]

\* _load_prices(): the mapping read from the file f at data_path. "raised"
\* says whether an exception leaves the method; the source catches
\* JSONDecodeError and returns {} instead.
_load_prices(f) ==
    IF ~Exists(f) THEN [raised |-> FALSE, prices |-> EmptyDict]
    ELSE IF f.st = "malformed" THEN [raised |-> FALSE, prices |-> EmptyDict]
    ELSE [ raised |-> FALSE,
           prices |-> _validate_prices(
                          IF MASTER_KEY \in DOMAIN f.data
                          THEN DictDel(f.data, MASTER_KEY) ELSE f.data).validated_data ]

\* _archive_old_prices archiving the whole store, not the keys about to change.
_archive_old_prices_whole(prices, updated_keys, hist, now) ==
    LET history_data == IF hist.st = "ok" THEN hist.data ELSE <<>>
        history_entry == [timestamp |-> now, archived_prices |-> prices]
    IN  IF {x \in updated_keys : x \in DOMAIN prices} = {} THEN hist
        ELSE JsonFile(Append(history_data, history_entry))

\* _archive_old_prices writing a history that holds the new entry alone
\* (history_data is not read back before it is written).
_archive_old_prices_overwriting(prices, updated_keys, hist, now) ==
    LET prices_to_archive ==
            [k \in {x \in updated_keys : x \in DOMAIN prices} |-> prices[k]]
        history_entry == [timestamp |-> now, archived_prices |-> prices_to_archive]
    IN  IF DOMAIN prices_to_archive = {} THEN hist
        ELSE JsonFile(<<history_entry>>)

\* _archive_old_prices(updated_keys): the history file afterwards.
_archive_old_prices(prices, updated_keys, hist, now) ==
    LET prices_to_archive ==
            [k \in {x \in updated_keys : x \in DOMAIN prices} |-> prices[k]]
        history_data == IF hist.st = "ok" THEN hist.data ELSE <<>>
        history_entry == [timestamp |-> now, archived_prices |-> prices_to_archive]
    IN  IF DOMAIN prices_to_archive = {} THEN hist
        ELSE JsonFile(Append(history_data, history_entry))

\* The text _save_prices_to_file puts first in the file.
HEADER == Str("yen per gram or piece")

\* _save_prices_to_file(): the price file afterwards.
_save_prices_to_file(prices) ==
    JsonFile(DictUpdate((MASTER_KEY :> HEADER), prices))

\* update_prices merging the new prices before it archives: the history gets
\* the values the keys have after the update.
update_prices_archive_after(prices, file, hist, new_prices_data, now) ==
    LET v == _validate_prices(new_prices_data)
        merged == DictUpdate(prices, v.validated_data)
    IN  IF v.errors # {}
        THEN [ok |-> FALSE, prices |-> prices, file |-> file, hist |-> hist]
        ELSE [ ok     |-> TRUE,
               prices |-> merged,
               hist   |-> _archive_old_prices(merged, DOMAIN v.validated_data, hist, now),
               file   |-> _save_prices_to_file(merged) ]

\* update_prices putting the new prices in the place of the old ones
\* (self.prices = validated_data) where the source merges them.
update_prices_replacing(prices, file, hist, new_prices_data, now) ==
    LET v == _validate_prices(new_prices_data)
    IN  IF v.errors # {}
        THEN [ok |-> FALSE, prices |-> prices, file |-> file, hist |-> hist]
        ELSE [ ok     |-> TRUE,
               prices |-> v.validated_data,
               hist   |-> _archive_old_prices(prices, DOMAIN v.validated_data, hist, now),
               file   |-> _save_prices_to_file(v.validated_data) ]

\* update_prices(new_prices_data): the return value, the contents of
\* self.prices, the history file and the price file afterwards.
update_prices(prices, file, hist, new_prices_data, now) ==
    LET v == _validate_prices(new_prices_data)
        merged == DictUpdate(prices, v.validated_data)
    IN  IF v.errors # {}
        THEN [ok |-> FALSE, prices |-> prices, file |-> file, hist |-> hist]
        ELSE [ ok     |-> TRUE,
               prices |-> merged,
               hist   |-> _archive_old_prices(prices, DOMAIN v.validated_data, hist, now),
               file   |-> _save_prices_to_file(merged) ]

\* backup_prices(backup_suffix): the return value and the backup file
\* afterwards. Opening an absent data_path raises IOError, caught.
backup_prices(file, backup) ==
    IF ~Exists(file) THEN [ok |-> FALSE, backup |-> backup]
    ELSE [ok |-> TRUE, backup |-> file]

\* restore_prices_from_backup opening data_path for writing before it looks
\* for the backup: a missing backup leaves the price file truncated.
restore_prices_truncating(file, backup) ==
    IF ~Exists(backup) THEN [ok |-> FALSE, file |-> MalformedFile, reloaded |-> FALSE]
    ELSE [ok |-> TRUE, file |-> backup, reloaded |-> TRUE]

\* restore_prices_from_backup(backup_suffix): the return value, the price
\* file afterwards, and whether self.prices was loaded again.
restore_prices_from_backup(file, backup) ==
    IF ~Exists(backup) THEN [ok |-> FALSE, file |-> file, reloaded |-> FALSE]
    ELSE [ok |-> TRUE, file |-> backup, reloaded |-> TRUE]

-----------------------------------------------------------------------------
(* PriceManager when the file system fails or the process is interrupted *)

\* What may go wrong in one call of update_prices: opening the history file
\* for reading or for writing raises IOError, writing it raises IOError
\* after the file was truncated, the same for the price file, or the process
\* ends after _archive_old_prices or after self.prices.update.
UpdateFaults ==
    { "none", "history_read_fails", "history_open_fails", "history_write_fails",
      "save_open_fails", "save_write_fails",
      "interrupt_after_archive", "interrupt_after_merge" }

\* What may go wrong in one call of restore_prices_from_backup: opening one
\* of the two files raises IOError, or writing the price file raises IOError
\* after it was truncated.
RestoreFaults == { "none", "copy_open_fails", "copy_write_fails" }

\* _archive_old_prices(updated_keys) with its except clauses: a history that
\* cannot be read counts as empty; a write that fails is warned about only.
_archive_old_prices_io(prices, updated_keys, hist, now, fault) ==
    LET prices_to_archive ==
            [k \in {x \in updated_keys : x \in DOMAIN prices} |-> prices[k]]
        history_data == IF hist.st = "ok" /\ fault # "history_read_fails"
                        THEN hist.data ELSE <<>>
        history_entry == [timestamp |-> now, archived_prices |-> prices_to_archive]
    IN  IF DOMAIN prices_to_archive = {} THEN hist
        ELSE CASE fault = "history_open_fails" -> hist
               [] fault = "history_write_fails" -> MalformedFile
               [] OTHER -> JsonFile(Append(history_data, history_entry))

\* _save_prices_to_file() with its except clause: IOError is printed only.
_save_prices_to_file_io(prices, file, fault) ==
    CASE fault = "save_open_fails" -> file
      [] fault = "save_write_fails" -> MalformedFile
      [] OTHER -> _save_prices_to_file(prices)

\* update_prices(new_prices_data) under a fault: whether it returned, the
\* return value, and self.prices, the history file and the price file as
\* the call, or its interruption, leaves them.
update_prices_io(prices, file, hist, new_prices_data, now, fault) ==
    LET v == _validate_prices(new_prices_data)
        merged == DictUpdate(prices, v.validated_data)
        archived == _archive_old_prices_io(prices, DOMAIN v.validated_data, hist, now, fault)
    IN  IF v.errors # {}
        THEN [returned |-> TRUE, ok |-> FALSE, prices |-> prices, file |-> file,
              hist |-> hist]
        ELSE CASE fault = "interrupt_after_archive" ->
                    [returned |-> FALSE, ok |-> FALSE, prices |-> prices, file |-> file,
                     hist |-> archived]
               [] fault = "interrupt_after_merge" ->
                    [returned |-> FALSE, ok |-> FALSE, prices |-> merged, file |-> file,
                     hist |-> archived]
               [] OTHER ->
                    [returned |-> TRUE, ok |-> TRUE, prices |-> merged,
                     file |-> _save_prices_to_file_io(merged, file, fault),
                     hist |-> archived]

\* restore_prices_from_backup(backup_suffix) under a fault: IOError is
\* caught and the method returns False.
restore_prices_from_backup_io(file, backup, fault) ==
    IF ~Exists(backup) THEN [ok |-> FALSE, file |-> file, reloaded |-> FALSE]
    ELSE CASE fault = "copy_open_fails" ->
                [ok |-> FALSE, file |-> file, reloaded |-> FALSE]
           [] fault = "copy_write_fails" ->
                [ok |-> FALSE, file |-> MalformedFile, reloaded |-> FALSE]
           [] OTHER -> [ok |-> TRUE, file |-> backup, reloaded |-> TRUE]

-----------------------------------------------------------------------------
(* The objects *)

MaxObjs == 3
ObjIds == 1..MaxObjs
NoHandle == [ref |-> 0, seen |-> EmptyDict]

\* the dict self.prices refers to
prices == heap[self_prices]

\* a new dict object: an id no live reference uses
NewObj == CHOOSE i \in ObjIds : i # self_prices /\ i # handle.ref

\* the heap with a new dict d at id i, keeping only what is still referred to
Alloc(i, d, keep) == [o \in ({i} \cup (keep \ {0})) |-> IF o = i THEN d ELSE heap[o]]

\* a call: the method, what it returned (for the constructor: whether it
\* returned at all), and its argument
NoCall == [op |-> "none", ok |-> TRUE, cand |-> EmptyDict, suffix |-> ""]
Call(op, ok, cand, suffix) == [op |-> op, ok |-> ok, cand |-> cand, suffix |-> suffix]

\* the (key, value) pairs of a dict
Pairs(d) == {<<k, d[k]>> : k \in DOMAIN d}

-----------------------------------------------------------------------------
(* The menu catalog: menu_definitions.py *)

\* Amounts of money are counted in thousandths of a yen, and unit prices are
\* multiples of a tenth of a yen, so that quantity * unit_price and a
\* percentage of a sum are whole numbers, as exact as the floats of the
\* source are on these values.
YEN == 1000
Price(tenths_of_yen) == tenths_of_yen * 100

Ing(name, quantity) == [name |-> name, quantity |-> quantity]

\* DISHES; the ingredients in the order the dict literal gives them.
\* hotate ホタテ, asparagus アスパラガス, truffle_oil トリュフオイル,
\* butter バター, jagaimo ジャガイモ, nama_cream 生クリーム, ninniku ニンニク,
\* kamo_niku 鴨肉, berry ベリー類, sato 砂糖, komugiko 小麦粉, caviar キャビア,
\* foie_gras フォアグラ, kohitsuji_niku 仔羊肉, rosemary ローズマリー,
\* chocolate チョコレート
DISHES_DEF ==
    [ zensai_A |->      \* 前菜A
        [ name |-> "hotate no poele",
          ingredients |-> << Ing("hotate", 80), Ing("asparagus", 30),
                             Ing("truffle_oil", 5), Ing("butter", 10) >> ],
      soup_A |->        \* スープA
        [ name |-> "jagaimo no reisei soup",
          ingredients |-> << Ing("jagaimo", 150), Ing("nama_cream", 50),
                             Ing("ninniku", 5) >> ],
      main_A_kamo |->   \* メインA_鴨
        [ name |-> "kamo niku no roast",
          ingredients |-> << Ing("kamo_niku", 150), Ing("berry", 50),
                             Ing("butter", 15), Ing("sato", 10) >> ],
      dessert_A |->     \* デザートA
        [ name |-> "kisetsu no fruit tart",
          ingredients |-> << Ing("berry", 60), Ing("komugiko", 50), Ing("butter", 30),
                             Ing("sato", 40), Ing("nama_cream", 20) >> ],
      zensai_B |->      \* 前菜B
        [ name |-> "caviar to hotate no carpaccio",
          ingredients |-> << Ing("caviar", 15), Ing("hotate", 60),
                             Ing("truffle_oil", 8) >> ],
      soup_B |->        \* スープB
        [ name |-> "foie gras no potage",
          ingredients |-> << Ing("foie_gras", 50), Ing("jagaimo", 100),
                             Ing("nama_cream", 70) >> ],
      main_B_kohitsuji |->  \* メインB_仔羊
        [ name |-> "kohitsuji no kosoyaki",
          ingredients |-> << Ing("kohitsuji_niku", 180), Ing("rosemary", 5),
                             Ing("ninniku", 10), Ing("jagaimo", 80),
                             Ing("butter", 10) >> ],
      dessert_B |->     \* デザートB
        [ name |-> "noko chocolate mousse",
          ingredients |-> << Ing("chocolate", 80), Ing("nama_cream", 100),
                             Ing("sato", 30), Ing("butter", 20) >> ] ]

ALL_DRINKS == <<"WINE_RED", "WINE_WHITE", "CHAMPAGNE", "BEER", "ORANGE_JUICE">>

\* COURSES: course_A コースA, course_B コースB
COURSES_DEF ==
    [ course_A |->
        [ description |-> "standard course",
          dishes |-> <<"zensai_A", "soup_A", "main_A_kamo", "dessert_A">>,
          discount_rule |-> "standard",
          available_drinks |-> ALL_DRINKS ],
      course_B |->
        [ description |-> "premium course",
          dishes |-> <<"zensai_B", "soup_B", "main_B_kohitsuji", "dessert_B">>,
          discount_rule |-> "premium",
          available_drinks |-> ALL_DRINKS ] ]

\* DRINKS; price in yen
DRINKS_DEF ==
    [ WINE_RED     |-> [name |-> "wine (aka)", price |-> 800],
      WINE_WHITE   |-> [name |-> "wine (shiro)", price |-> 800],
      CHAMPAGNE    |-> [name |-> "champagne", price |-> 1200],
      BEER         |-> [name |-> "beer", price |-> 600],
      ORANGE_JUICE |-> [name |-> "orange juice", price |-> 400] ]

\* DISCOUNT_RULES; value in percent (percentage) or in yen (fixed)
DISCOUNT_RULES_DEF ==
    [ standard |-> [type |-> "percentage", value |-> 5,
                    condition |-> "course total cost 5000 yen or more"],
      premium  |-> [type |-> "fixed", value |-> 500, condition |-> "always"],
      none     |-> [type |-> "none", value |-> 0, condition |-> "no discount"] ]

\* The catalog as the module defines it.
MENU ==
    [ DISHES |-> DISHES_DEF, COURSES |-> COURSES_DEF,
      DRINKS |-> DRINKS_DEF, DISCOUNT_RULES |-> DISCOUNT_RULES_DEF ]

\* The catalog while test_course_no_discount_rule runs: COURSES holds one
\* more course, コースTEMP_NO_DISCOUNT, with the dishes of course_A.
MENU_TEMP ==
    [ MENU EXCEPT !.COURSES =
        [ c \in {"course_A", "course_B", "course_TEMP_NO_DISCOUNT"} |->
            IF c = "course_TEMP_NO_DISCOUNT"
            THEN [ description |-> "temporary course",
                   dishes |-> COURSES_DEF["course_A"].dishes,
                   discount_rule |-> "none" ]
            ELSE COURSES_DEF[c] ] ]

\* Courses a test adds to COURSES the way test_course_no_discount_rule does:
\* one that lists a dish DISHES does not define and offers beer only, one
\* whose discount_rule names no rule of DISCOUNT_RULES, one that declares no
\* discount_rule at all, and one whose rule has a type the function does not
\* know.
COURSES_PATCH ==
    [ course_GHOST_DISH |->
        [ description |-> "course with a dish that is not defined",
          dishes |-> <<"zensai_A", "sonzai_shinai_ryori", "soup_A">>,
          discount_rule |-> "standard",
          available_drinks |-> <<"BEER">> ],
      course_LOST_RULE |->
        [ description |-> "course with a rule that is not defined",
          dishes |-> COURSES_DEF["course_A"].dishes,
          discount_rule |-> "sonzai_shinai_rule",
          available_drinks |-> ALL_DRINKS ],
      course_NO_RULE |->
        [ description |-> "course without a rule",
          dishes |-> COURSES_DEF["course_A"].dishes ],
      course_ODD_RULE |->
        [ description |-> "course with a rule of another type",
          dishes |-> COURSES_DEF["course_A"].dishes,
          discount_rule |-> "odd",
          available_drinks |-> ALL_DRINKS ] ]

\* The catalog with these courses, and with a rule whose type is neither
\* "percentage" nor "fixed" nor "none".
MENU_PATCHED ==
    [ MENU EXCEPT
        !.COURSES =
            [ c \in (DOMAIN COURSES_DEF) \cup (DOMAIN COURSES_PATCH) |->
                IF c \in DOMAIN COURSES_PATCH THEN COURSES_PATCH[c] ELSE COURSES_DEF[c] ],
        !.DISCOUNT_RULES =
            [ r \in (DOMAIN DISCOUNT_RULES_DEF) \cup {"odd"} |->
                IF r = "odd"
                THEN [type |-> "points", value |-> 10, condition |-> "members"]
                ELSE DISCOUNT_RULES_DEF[r] ] ]

Menus == {MENU, MENU_TEMP, MENU_PATCHED}

DISHES == menu.DISHES
COURSES == menu.COURSES
DRINKS == menu.DRINKS
DISCOUNT_RULES == menu.DISCOUNT_RULES

-----------------------------------------------------------------------------
(* The cost functions: cost_calculator.py *)

\* None
None == [kind |-> "none", n |-> 0, s |-> ""]
\* "単価不明", the unit_price of a detail line whose price is not known
UNKNOWN_PRICE == Str("tanka fumei")

\* ingredient_prices.get(ingredient)
DictGet(d, k) == IF k \in DOMAIN d THEN d[k] ELSE None

\* load_ingredient_prices returning an empty dict for a file it cannot use,
\* as _load_prices of the price store does.
load_ingredient_prices_quiet(f) ==
    IF f.st # "ok"
    THEN [raised |-> "none", data |-> EmptyDict]
    ELSE [raised |-> "none", data |-> DictDel(f.data, MASTER_KEY)]

\* load_ingredient_prices(filepath), from the file at filepath: the exception
\* that leaves the function ("none": it returned), and the dict returned.
\* The values are returned as they are in the file.
load_ingredient_prices(f) ==
    CASE f.st = "absent" -> [raised |-> "FileNotFoundError", data |-> None]
      [] f.st = "malformed" -> [raised |-> "JSONDecodeError", data |-> None]
      [] OTHER -> [raised |-> "none", data |-> DictDel(f.data, MASTER_KEY)]

\* The loop of calculate_dish_cost over dish_info["ingredients"].items(),
\* from the items still to visit and the values of total_cost and
\* ingredient_details so far. quantity * unit_price with a unit_price that is
\* a string gives a string, and total_cost += cost then raises TypeError.
RECURSIVE dish_loop(_, _, _, _)
dish_loop(items, ingredient_prices, total_cost, ingredient_details) ==
    IF items = <<>>
    THEN [raised |-> FALSE, total_cost |-> total_cost,
          ingredient_details |-> ingredient_details]
    ELSE LET ingredient == Head(items).name
             quantity == Head(items).quantity
             unit_price == DictGet(ingredient_prices, ingredient)
         IN  IF unit_price = None
             THEN dish_loop(Tail(items), ingredient_prices, total_cost,
                            Append(ingredient_details,
                                   [ name |-> ingredient, quantity |-> quantity,
                                     unit_price |-> UNKNOWN_PRICE, cost |-> 0 ]))
             ELSE IF ~IsNumber(unit_price)
             THEN [raised |-> TRUE, total_cost |-> total_cost,
                   ingredient_details |-> ingredient_details]
             ELSE dish_loop(Tail(items), ingredient_prices,
                            total_cost + quantity * unit_price.n,
                            Append(ingredient_details,
                                   [ name |-> ingredient, quantity |-> quantity,
                                     unit_price |-> unit_price,
                                     cost |-> quantity * unit_price.n ]))

\* The loop of calculate_dish_cost leaving out the ingredients without a
\* price (continue before the detail line is appended).
RECURSIVE dish_loop_skipping(_, _, _, _)
dish_loop_skipping(items, ingredient_prices, total_cost, ingredient_details) ==
    IF items = <<>>
    THEN [raised |-> FALSE, total_cost |-> total_cost,
          ingredient_details |-> ingredient_details]
    ELSE LET ingredient == Head(items).name
             quantity == Head(items).quantity
             unit_price == DictGet(ingredient_prices, ingredient)
         IN  IF unit_price = None
             THEN dish_loop_skipping(Tail(items), ingredient_prices, total_cost,
                                     ingredient_details)
             ELSE dish_loop_skipping(Tail(items), ingredient_prices,
                                     total_cost + quantity * unit_price.n,
                                     Append(ingredient_details,
                                            [ name |-> ingredient, quantity |-> quantity,
                                              unit_price |-> unit_price,
                                              cost |-> quantity * unit_price.n ]))

\* calculate_dish_cost with that loop.
calculate_dish_cost_skipping(dish_id, ingredient_prices) ==
    IF dish_id \notin DOMAIN DISHES
    THEN [raised |-> FALSE, total_cost |-> 0, ingredient_details |-> <<>>]
    ELSE dish_loop_skipping(DISHES[dish_id].ingredients, ingredient_prices, 0, <<>>)

\* calculate_dish_cost without the lookup of dish_id: DISHES[dish_id] raises
\* KeyError for a dish that is not defined.
calculate_dish_cost_unchecked(dish_id, ingredient_prices) ==
    IF dish_id \notin DOMAIN DISHES
    THEN [raised |-> TRUE, total_cost |-> 0, ingredient_details |-> <<>>]
    ELSE dish_loop(DISHES[dish_id].ingredients, ingredient_prices, 0, <<>>)

\* calculate_dish_cost recording the unit_price of every line as the lookup
\* gave it: None for an ingredient without a price.
calculate_dish_cost_unmarked(dish_id, ingredient_prices) ==
    IF dish_id \notin DOMAIN DISHES
    THEN [raised |-> FALSE, total_cost |-> 0, ingredient_details |-> <<>>]
    ELSE LET r == dish_loop(DISHES[dish_id].ingredients, ingredient_prices, 0, <<>>)
             lines == r.ingredient_details
         IN  [ r EXCEPT !.ingredient_details =
                 [ i \in DOMAIN lines |->
                     IF lines[i].unit_price = UNKNOWN_PRICE
                     THEN [lines[i] EXCEPT !.unit_price = None]
                     ELSE lines[i] ] ]

\* calculate_dish_cost(dish_id, ingredient_prices): (total_cost, ingredient_details)
calculate_dish_cost(dish_id, ingredient_prices) ==
    IF dish_id \notin DOMAIN DISHES
    THEN [raised |-> FALSE, total_cost |-> 0, ingredient_details |-> <<>>]
    ELSE dish_loop(DISHES[dish_id].ingredients, ingredient_prices, 0, <<>>)

\* DISHES.get(dish_id, {}).get("name", dish_id)
DishName(dish_id) == IF dish_id \in DOMAIN DISHES THEN DISHES[dish_id].name ELSE dish_id

\* The first loop of calculate_course_cost leaving out the dishes DISHES does
\* not define (if dish_id not in DISHES: continue).
RECURSIVE course_loop_skipping(_, _, _, _)
course_loop_skipping(dish_ids, ingredient_prices, course_total_cost, dishes_cost_details) ==
    IF dish_ids = <<>>
    THEN [raised |-> FALSE, course_total_cost |-> course_total_cost,
          dishes_cost_details |-> dishes_cost_details]
    ELSE LET dish_id == Head(dish_ids)
             r == calculate_dish_cost(dish_id, ingredient_prices)
         IN  IF r.raised
             THEN [raised |-> TRUE, course_total_cost |-> course_total_cost,
                   dishes_cost_details |-> dishes_cost_details]
             ELSE IF dish_id \notin DOMAIN DISHES
             THEN course_loop_skipping(Tail(dish_ids), ingredient_prices,
                                       course_total_cost, dishes_cost_details)
             ELSE course_loop_skipping(Tail(dish_ids), ingredient_prices,
                                       course_total_cost + r.total_cost,
                                       Append(dishes_cost_details,
                                              [ dish_name |-> DishName(dish_id),
                                                cost |-> r.total_cost,
                                                ingredients |-> r.ingredient_details ]))

\* The first loop of calculate_course_cost, over course_info["dishes"].
RECURSIVE course_loop(_, _, _, _)
course_loop(dish_ids, ingredient_prices, course_total_cost, dishes_cost_details) ==
    IF dish_ids = <<>>
    THEN [raised |-> FALSE, course_total_cost |-> course_total_cost,
          dishes_cost_details |-> dishes_cost_details]
    ELSE LET dish_id == Head(dish_ids)
             r == calculate_dish_cost(dish_id, ingredient_prices)
         IN  IF r.raised
             THEN [raised |-> TRUE, course_total_cost |-> course_total_cost,
                   dishes_cost_details |-> dishes_cost_details]
             ELSE course_loop(Tail(dish_ids), ingredient_prices,
                              course_total_cost + r.total_cost,
                              Append(dishes_cost_details,
                                     [ dish_name |-> DishName(dish_id),
                                       cost |-> r.total_cost,
                                       ingredients |-> r.ingredient_details ]))

\* The loop of calculate_course_cost over selected_drinks ending at the first
\* drink DRINKS does not define (break in the else branch).
RECURSIVE drinks_loop_stopping(_, _, _)
drinks_loop_stopping(selected_drinks, drinks_total_cost, selected_drinks_details) ==
    IF selected_drinks = <<>> \/ Head(selected_drinks) \notin DOMAIN DRINKS
    THEN [drinks_total_cost |-> drinks_total_cost,
          selected_drinks_details |-> selected_drinks_details]
    ELSE LET drink_id == Head(selected_drinks)
         IN  drinks_loop_stopping(Tail(selected_drinks),
                                  drinks_total_cost + DRINKS[drink_id].price * YEN,
                                  Append(selected_drinks_details,
                                         [ name |-> DRINKS[drink_id].name,
                                           price |-> DRINKS[drink_id].price * YEN ]))

\* The loop of calculate_course_cost over selected_drinks.
RECURSIVE drinks_loop(_, _, _)
drinks_loop(selected_drinks, drinks_total_cost, selected_drinks_details) ==
    IF selected_drinks = <<>>
    THEN [drinks_total_cost |-> drinks_total_cost,
          selected_drinks_details |-> selected_drinks_details]
    ELSE LET drink_id == Head(selected_drinks)
         IN  IF drink_id \in DOMAIN DRINKS
             THEN drinks_loop(Tail(selected_drinks),
                              drinks_total_cost + DRINKS[drink_id].price * YEN,
                              Append(selected_drinks_details,
                                     [ name |-> DRINKS[drink_id].name,
                                       price |-> DRINKS[drink_id].price * YEN ]))
             ELSE drinks_loop(Tail(selected_drinks), drinks_total_cost,
                              selected_drinks_details)

\* the subtotal from which a percentage rule applies, in yen
DISCOUNT_THRESHOLD == 5000

\* The lookup of the rule with another default:
\* DISCOUNT_RULES.get(discount_rule_id, DISCOUNT_RULES["standard"])
discount_rule_standard(discount_rule_id) ==
    IF discount_rule_id \in DOMAIN DISCOUNT_RULES
    THEN DISCOUNT_RULES[discount_rule_id] ELSE DISCOUNT_RULES["standard"]

\* rule = DISCOUNT_RULES.get(discount_rule_id, DISCOUNT_RULES["none"])
discount_rule(discount_rule_id) ==
    IF discount_rule_id \in DOMAIN DISCOUNT_RULES
    THEN DISCOUNT_RULES[discount_rule_id] ELSE DISCOUNT_RULES["none"]

\* The if / elif / else over rule["type"] with a percentage rule that applies
\* above the threshold only (course_total_cost > 5000).
discount_above(rule, course_total_cost) ==
    CASE rule.type = "percentage" ->
           IF course_total_cost > DISCOUNT_THRESHOLD * YEN
           THEN [ discount_amount |-> (course_total_cost * rule.value) \div 100,
                  applied |-> TRUE ]
           ELSE [ discount_amount |-> 0, applied |-> FALSE ]
      [] rule.type = "fixed" ->
           [ discount_amount |-> rule.value * YEN, applied |-> TRUE ]
      [] OTHER -> [ discount_amount |-> 0, applied |-> FALSE ]

\* The if / elif / else over rule["type"]: discount_amount and discount_applied.
discount(rule, course_total_cost) ==
    CASE rule.type = "percentage" ->
           IF course_total_cost >= DISCOUNT_THRESHOLD * YEN
           THEN [ discount_amount |-> (course_total_cost * rule.value) \div 100,
                  applied |-> TRUE ]
           ELSE [ discount_amount |-> 0, applied |-> FALSE ]
      [] rule.type = "fixed" ->
           [ discount_amount |-> rule.value * YEN, applied |-> TRUE ]
      [] OTHER -> [ discount_amount |-> 0, applied |-> FALSE ]

\* calculate_course_cost(course_id, ingredient_prices, selected_drinks):
\* None, or the result dict; "raised" when an exception leaves the function.
calculate_course_cost(course_id, ingredient_prices, selected_drinks) ==
    IF course_id \notin DOMAIN COURSES THEN [raised |-> FALSE, result |-> None]
    ELSE
    LET course_info == COURSES[course_id]
        d == course_loop(course_info.dishes, ingredient_prices, 0, <<>>)
        course_total_cost == d.course_total_cost
        discount_rule_id == IF "discount_rule" \in DOMAIN course_info
                            THEN course_info.discount_rule ELSE "none"
        rule == discount_rule(discount_rule_id)
        applied == discount(rule, course_total_cost).applied
        discount_amount == discount(rule, course_total_cost).discount_amount
        final_course_food_cost == course_total_cost - discount_amount
        k == drinks_loop(selected_drinks, 0, <<>>)
    IN  IF d.raised THEN [raised |-> TRUE, result |-> None]
        ELSE [ raised |-> FALSE,
               result |->
                 [ course_name |-> course_id,
                   description |-> course_info.description,
                   dishes_cost |-> d.dishes_cost_details,
                   subtotal_cost |-> course_total_cost,
                   discount_info |-> [ rule_id |-> discount_rule_id,
                                       condition |-> rule.condition,
                                       discount_amount |-> discount_amount,
                                       applied |-> applied ],
                   total_food_cost |-> final_course_food_cost,
                   selected_drinks_info |-> k.selected_drinks_details,
                   drinks_total_cost |-> k.drinks_total_cost,
                   total_cost |-> final_course_food_cost + k.drinks_total_cost ] ]

-----------------------------------------------------------------------------
(* The audit of the price table against the dishes: data_validator.py *)

\* The names of the ingredients in the order sorted() puts the originals:
\* item_a, アスパラガス, キャビア, ジャガイモ, チョコレート, トリュフオイル,
\* ニンニク, バター, フォアグラ, ベリー類, ホタテ, ローズマリー, 仔羊肉, 小麦粉,
\* 生クリーム, 砂糖, 鴨肉
SORTED_NAMES ==
    << "item_a", "asparagus", "caviar", "jagaimo", "chocolate", "truffle_oil",
       "ninniku", "butter", "foie_gras", "berry", "hotate", "rosemary",
       "kohitsuji_niku", "komugiko", "nama_cream", "sato", "kamo_niku" >>

\* sorted(list(S)) for a set S of these names
sorted(S) == LET In(x) == x \in S IN SelectSeq(SORTED_NAMES, In)

\* get_all_ingredients_from_dishes(dishes)
get_all_ingredients_from_dishes(dishes) ==
    UNION { {dishes[d].ingredients[i].name : i \in DOMAIN dishes[d].ingredients}
            : d \in DOMAIN dishes }

\* validate_ingredient_data taking the defined names out of the set it was
\* given (used_ingredients -= defined_prices) before it compares.
validate_ingredient_data_in_place(used_ingredients, defined_prices) ==
    LET used == used_ingredients \ defined_prices
    IN  [ used_ingredients |-> used,
          defined_prices |-> defined_prices,
          result |-> [ missing_in_prices |-> sorted(used \ defined_prices),
                       unused_in_dishes |-> sorted(defined_prices \ used) ] ]

\* validate_ingredient_data(used_ingredients, defined_prices): the dict it
\* returns, and the two sets of the caller as the call leaves them.
validate_ingredient_data(used_ingredients, defined_prices) ==
    [ used_ingredients |-> used_ingredients,
      defined_prices |-> defined_prices,
      result |-> [ missing_in_prices |-> sorted(used_ingredients \ defined_prices),
                   unused_in_dishes |-> sorted(defined_prices \ used_ingredients) ] ]

-----------------------------------------------------------------------------
(* The inputs of the cost functions *)

\* every ingredient a dish of the catalog uses
Ingredients == get_all_ingredients_from_dishes(DISHES_DEF)

\* The price tables of the tests, in tenths of a yen: course A at a high
\* cost, course A at a low cost, course B; "item_a" is used by no dish.
PRICES_A_HIGH ==
    [ hotate |-> 250, asparagus |-> 50, truffle_oil |-> 150, butter |-> 20,
      jagaimo |-> 15, nama_cream |-> 35, ninniku |-> 20, kamo_niku |-> 300,
      berry |-> 70, sato |-> 8, komugiko |-> 5 ]
PRICES_A_LOW ==
    [ hotate |-> 100, asparagus |-> 20, truffle_oil |-> 50, butter |-> 10,
      jagaimo |-> 5, nama_cream |-> 10, ninniku |-> 5, kamo_niku |-> 150,
      berry |-> 30, sato |-> 4, komugiko |-> 5, item_a |-> 0 ]
PRICES_B ==
    [ caviar |-> 500, hotate |-> 250, truffle_oil |-> 150, foie_gras |-> 600,
      jagaimo |-> 15, nama_cream |-> 35, ninniku |-> 20, kohitsuji_niku |-> 450,
      rosemary |-> 30, butter |-> 20, chocolate |-> 80, sato |-> 8 ]

\* A table under which 前菜A costs 5000 yen and nothing else of course A has
\* a price but アスパラガス, which costs nothing.
PRICES_A_EXACT == [ hotate |-> 625, asparagus |-> 0 ]

\* A table without any price: ingredient_prices.get finds nothing.
PRICES_NONE == EmptyDict

PriceTables == {PRICES_A_HIGH, PRICES_A_LOW, PRICES_B, PRICES_A_EXACT, PRICES_NONE}

\* the table t as a snapshot, without the ingredients in S
SnapshotOf(t, S) == [k \in (DOMAIN t) \ S |-> Num(Price(t[k]))]

Snapshots ==
    { SnapshotOf(t, S) : t \in PriceTables,
                         S \in {x \in SUBSET Ingredients : Cardinality(x) <= MaxMissing} }

DishIds == (DOMAIN DISHES_DEF) \cup {"sonzai_shinai_ryori"}      \* 存在しない料理ID
CourseIds == {"course_A", "course_B", "course_TEMP_NO_DISCOUNT",
              "sonzai_shinai_course"}                              \* 存在しないコースID
             \cup DOMAIN COURSES_PATCH
DrinkIds == {"WINE_RED", "BEER", "UNKNOWN_DRINK"}

DrinkLists == UNION { [1..n -> DrinkIds] : n \in 0..MaxDrinks }

NoCalc == [fn |-> "none", id |-> "", drinks |-> <<>>, raised |-> FALSE, out |-> None]

\* The files load_ingredient_prices may find at filepath: none, one that is
\* not JSON, the files of the tests (with and without the descriptive key),
\* an empty object, and one with a price that is not a number.
LoaderFiles ==
    { AbsentFile, MalformedFile,
      JsonFile(("item_a" :> Num(10)) @@ ("item_b" :> Num(20))),
      JsonFile((MASTER_KEY :> Str("description")) @@ ("item_a" :> Num(10))
               @@ ("item_c" :> Num(30))),
      JsonFile(EmptyDict),
      JsonFile((MASTER_KEY :> Str("description")) @@ ("item_a" :> Str("invalid_price"))) }

NoLoad == [called |-> FALSE, file |-> AbsentFile, raised |-> "none", data |-> None]

\* The sets given to validate_ingredient_data: the ingredients of the dishes
\* and the names of the price table, as the module gives them when it is
\* run, and every set of a few names.
AuditNames == {"hotate", "butter", "item_a"}
UsedSets == {get_all_ingredients_from_dishes(DISHES)} \cup SUBSET AuditNames
DefinedSets == {DOMAIN snapshot} \cup SUBSET AuditNames

NoAudit == [called |-> FALSE, used_ingredients |-> {}, defined_prices |-> {},
            after |-> None]

\* no function has been called yet
Fresh == calc = NoCalc /\ loaded = NoLoad /\ audit = NoAudit

\* The store, left alone while costs are calculated.
StoreIdle ==
    /\ pc = "new"
    /\ heap = EmptyDict
    /\ self_prices = 0
    /\ dataFile = AbsentFile
    /\ historyFile = AbsentFile
    /\ backups = [s \in Suffixes |-> AbsentFile]
    /\ handle = NoHandle
    /\ clock = 0
    /\ last = NoCall
    /\ atBackup = [s \in Suffixes |-> [taken |-> FALSE, prices |-> EmptyDict]]
    /\ held = {}

\* The cost functions, left alone while the store is used.
CostIdle ==
    /\ menu = MENU
    /\ snapshot = EmptyDict
    /\ calc = NoCalc
    /\ loaded = NoLoad
    /\ audit = NoAudit

InitCost ==
    /\ StoreIdle
    /\ menu \in Menus
    /\ snapshot \in Snapshots
    /\ Fresh

\* calculate_dish_cost(dish_id, ingredient_prices) on the snapshot
CalcDish(dish_id) ==
    /\ Fresh
    /\ LET r == calculate_dish_cost(dish_id, snapshot)
       IN  calc' = [ fn |-> "dish", id |-> dish_id, drinks |-> <<>>,
                     raised |-> r.raised,
                     out |-> [ total_cost |-> r.total_cost,
                               ingredient_details |-> r.ingredient_details ] ]
    /\ UNCHANGED <<storeVars, menu, snapshot, loaded, audit>>

\* calculate_course_cost(course_id, ingredient_prices, selected_drinks)
CalcCourse(course_id, selected_drinks) ==
    /\ Fresh
    /\ LET r == calculate_course_cost(course_id, snapshot, selected_drinks)
       IN  calc' = [ fn |-> "course", id |-> course_id, drinks |-> selected_drinks,
                     raised |-> r.raised, out |-> r.result ]
    /\ UNCHANGED <<storeVars, menu, snapshot, loaded, audit>>

\* load_ingredient_prices(filepath)
LoadIngredientPrices(f) ==
    /\ Fresh
    /\ LET r == load_ingredient_prices(f)
       IN  loaded' = [called |-> TRUE, file |-> f, raised |-> r.raised, data |-> r.data]
    /\ UNCHANGED <<storeVars, menu, snapshot, calc, audit>>

\* validate_ingredient_data(used_ingredients, defined_prices)
ValidateIngredientData(used_ingredients, defined_prices) ==
    /\ Fresh
    /\ audit' = [ called |-> TRUE, used_ingredients |-> used_ingredients,
                  defined_prices |-> defined_prices,
                  after |-> validate_ingredient_data(used_ingredients, defined_prices) ]
    /\ UNCHANGED <<storeVars, menu, snapshot, calc, loaded>>

NextCost ==
    \/ \E dish_id \in DishIds : CalcDish(dish_id)
    \/ \E course_id \in CourseIds, selected_drinks \in DrinkLists :
           CalcCourse(course_id, selected_drinks)
    \/ \E f \in LoaderFiles : LoadIngredientPrices(f)
    \/ \E used_ingredients \in UsedSets, defined_prices \in DefinedSets :
           ValidateIngredientData(used_ingredients, defined_prices)

SpecCost == InitCost /\ [][NextCost]_vars

-----------------------------------------------------------------------------
(* The audit before the calculation: load, validate, calculate *)

\* a price file with the descriptive key and a price (1 yen) for every
\* ingredient but those in S
PriceFile(S) ==
    JsonFile((MASTER_KEY :> Str("description"))
             @@ [k \in Ingredients \ S |-> Num(Price(10))])

\* The price files of the audit: complete; without a price for 鴨肉; without
\* prices for ホタテ and バター; complete with null as the price of ホタテ;
\* complete with a string as the price of バター; the prices of a test, with
\* a name no dish uses; not JSON; absent.
AuditFiles ==
    { PriceFile({}), PriceFile({"kamo_niku"}), PriceFile({"hotate", "butter"}),
      JsonFile(("hotate" :> None) @@ PriceFile({"hotate"}).data),
      JsonFile(("butter" :> Str("invalid_price")) @@ PriceFile({"butter"}).data),
      JsonFile(SnapshotOf(PRICES_A_LOW, {})),
      MalformedFile, AbsentFile }

InitAudit ==
    /\ StoreIdle
    /\ menu \in Menus
    /\ snapshot = EmptyDict
    /\ Fresh

\* ingredient_prices = load_ingredient_prices(filepath)
AuditLoad(f) ==
    /\ Fresh
    /\ LET r == load_ingredient_prices(f)
       IN  /\ loaded' = [called |-> TRUE, file |-> f, raised |-> r.raised, data |-> r.data]
           /\ snapshot' = IF r.raised = "none" THEN r.data ELSE snapshot
    /\ UNCHANGED <<storeVars, menu, calc, audit>>

\* validate_ingredient_data(get_all_ingredients_from_dishes(DISHES),
\*                          set(ingredient_prices.keys()))
AuditValidate ==
    /\ loaded.called /\ loaded.raised = "none"
    /\ audit = NoAudit
    /\ LET used_ingredients == get_all_ingredients_from_dishes(DISHES)
           defined_prices == DOMAIN snapshot
       IN  audit' = [ called |-> TRUE, used_ingredients |-> used_ingredients,
                      defined_prices |-> defined_prices,
                      after |-> validate_ingredient_data(used_ingredients, defined_prices) ]
    /\ UNCHANGED <<storeVars, menu, snapshot, calc, loaded>>

\* calculate_dish_cost(dish_id, ingredient_prices) on the mapping loaded
AuditCalcDish(dish_id) ==
    /\ audit.called
    /\ calc = NoCalc
    /\ LET r == calculate_dish_cost(dish_id, snapshot)
       IN  calc' = [ fn |-> "dish", id |-> dish_id, drinks |-> <<>>,
                     raised |-> r.raised,
                     out |-> [ total_cost |-> r.total_cost,
                               ingredient_details |-> r.ingredient_details ] ]
    /\ UNCHANGED <<storeVars, menu, snapshot, loaded, audit>>

NextAudit ==
    \/ \E f \in AuditFiles : AuditLoad(f)
    \/ AuditValidate
    \/ \E dish_id \in DishIds : AuditCalcDish(dish_id)

SpecAudit == InitAudit /\ [][NextAudit]_vars

-----------------------------------------------------------------------------
(* The state machine *)

Init ==
    /\ pc = "new"
    /\ heap = EmptyDict
    /\ self_prices = 0
    /\ dataFile \in InitialDataFiles
    /\ historyFile \in InitialHistoryFiles
    /\ backups = [s \in Suffixes |-> AbsentFile]
    /\ handle = NoHandle
    /\ clock = 0
    /\ last = NoCall
    /\ atBackup = [s \in Suffixes |-> [taken |-> FALSE, prices |-> EmptyDict]]
    /\ held = {}
    /\ CostIdle

\* PriceManager(data_path, history_path): self.prices = self._load_prices()
Construct ==
    /\ pc = "new"
    /\ LET r == _load_prices(dataFile)
       IN  IF r.raised
           THEN /\ pc' = "failed"
                /\ UNCHANGED <<heap, self_prices, held>>
                /\ last' = Call("load", FALSE, EmptyDict, "")
           ELSE /\ pc' = "ready"
                /\ self_prices' = 1
                /\ heap' = (1 :> r.prices)
                /\ held' = Pairs(r.prices)
                /\ last' = Call("load", TRUE, EmptyDict, "")
    /\ clock' = clock + 1
    /\ UNCHANGED <<dataFile, historyFile, backups, handle, atBackup, costVars>>

\* get_prices(): return self.prices
GetPrices ==
    /\ pc = "ready"
    /\ clock < MaxCalls
    /\ handle' = [ref |-> self_prices, seen |-> prices]
    /\ heap' = [o \in {self_prices} |-> heap[o]]
    /\ last' = Call("get_prices", TRUE, EmptyDict, "")
    /\ clock' = clock + 1
    /\ UNCHANGED <<pc, self_prices, dataFile, historyFile, backups, atBackup, held,
                   costVars>>

\* update_prices(new_prices_data)
UpdatePrices(new_prices_data) ==
    /\ pc = "ready"
    /\ clock < MaxCalls
    /\ LET r == update_prices(prices, dataFile, historyFile, new_prices_data, clock)
       IN  /\ heap' = [heap EXCEPT ![self_prices] = r.prices]
           /\ dataFile' = r.file
           /\ historyFile' = r.hist
           /\ held' = held \cup Pairs(r.prices)
           /\ last' = Call("update_prices", r.ok, new_prices_data, "")
    /\ clock' = clock + 1
    /\ UNCHANGED <<pc, self_prices, backups, handle, atBackup, costVars>>

\* backup_prices(backup_suffix)
BackupPrices(s) ==
    /\ pc = "ready"
    /\ clock < MaxCalls
    /\ LET r == backup_prices(dataFile, backups[s])
       IN  /\ backups' = [backups EXCEPT ![s] = r.backup]
           /\ atBackup' = IF r.ok
                          THEN [atBackup EXCEPT ![s] = [taken |-> TRUE, prices |-> prices]]
                          ELSE atBackup
           /\ last' = Call("backup_prices", r.ok, EmptyDict, s)
    /\ clock' = clock + 1
    /\ UNCHANGED <<pc, heap, self_prices, dataFile, historyFile, handle, held, costVars>>

\* restore_prices_from_backup(backup_suffix)
RestorePrices(s) ==
    /\ pc = "ready"
    /\ clock < MaxCalls
    /\ LET r == restore_prices_from_backup(dataFile, backups[s])
           l == _load_prices(r.file)
       IN  /\ dataFile' = r.file
           /\ IF r.reloaded /\ l.raised
              THEN /\ pc' = "failed"
                   /\ UNCHANGED <<heap, self_prices, held>>
                   /\ last' = Call("restore_prices_from_backup", FALSE, EmptyDict, s)
              ELSE /\ pc' = pc
                   /\ IF r.reloaded
                      THEN /\ self_prices' = NewObj
                           /\ heap' = Alloc(NewObj, l.prices, {handle.ref})
                           /\ held' = Pairs(l.prices)
                      ELSE UNCHANGED <<heap, self_prices, held>>
                   /\ last' = Call("restore_prices_from_backup", r.ok, EmptyDict, s)
    /\ clock' = clock + 1
    /\ UNCHANGED <<historyFile, backups, handle, atBackup, costVars>>

Next ==
    \/ Construct
    \/ GetPrices
    \/ \E c \in Candidates : UpdatePrices(c)
    \/ \E s \in Suffixes : BackupPrices(s)
    \/ \E s \in Suffixes : RestorePrices(s)

Spec == Init /\ [][Next]_vars

-----------------------------------------------------------------------------
(* The state machine when the file system fails or the process is interrupted *)

\* The candidate maps of the updates made under faults.
IOCandidates ==
    { ("X" :> Num(20)), ("X" :> Num(10)), ("Y" :> Num(20)),
      ("X" :> Num(20)) @@ ("Y" :> Num(10)), ("X" :> Str("bad_data")) }

\* update_prices(new_prices_data) under a fault
UpdatePricesIO(new_prices_data, fault) ==
    /\ pc = "ready"
    /\ clock < MaxIOCalls
    /\ LET r == update_prices_io(prices, dataFile, historyFile, new_prices_data, clock, fault)
       IN  /\ heap' = [heap EXCEPT ![self_prices] = r.prices]
           /\ dataFile' = r.file
           /\ historyFile' = r.hist
           /\ held' = held \cup Pairs(r.prices)
           /\ pc' = IF r.returned THEN pc ELSE "interrupted"
           /\ last' = Call("update_prices", r.ok, new_prices_data, "")
    /\ clock' = clock + 1
    /\ UNCHANGED <<self_prices, backups, handle, atBackup, costVars>>

\* restore_prices_from_backup(backup_suffix) under a fault
RestorePricesIO(s, fault) ==
    /\ pc = "ready"
    /\ clock < MaxIOCalls
    /\ LET r == restore_prices_from_backup_io(dataFile, backups[s], fault)
           l == _load_prices(r.file)
       IN  /\ dataFile' = r.file
           /\ IF r.reloaded
              THEN /\ self_prices' = NewObj
                   /\ heap' = Alloc(NewObj, l.prices, {handle.ref})
                   /\ held' = Pairs(l.prices)
              ELSE UNCHANGED <<heap, self_prices, held>>
           /\ last' = Call("restore_prices_from_backup", r.ok, EmptyDict, s)
    /\ clock' = clock + 1
    /\ UNCHANGED <<pc, historyFile, backups, handle, atBackup, costVars>>

\* The program is started again after an interruption: the objects are gone,
\* the files are as they were left.
Restart ==
    /\ pc = "interrupted"
    /\ pc' = "new"
    /\ heap' = EmptyDict
    /\ self_prices' = 0
    /\ handle' = NoHandle
    /\ held' = {}
    /\ last' = NoCall
    /\ UNCHANGED <<dataFile, historyFile, backups, clock, atBackup, costVars>>

NextIO ==
    \/ Construct
    \/ \E c \in IOCandidates, fault \in UpdateFaults : UpdatePricesIO(c, fault)
    \/ \E s \in Suffixes : BackupPrices(s)
    \/ \E s \in Suffixes, fault \in RestoreFaults : RestorePricesIO(s, fault)
    \/ Restart

SpecIO == Init /\ [][NextIO]_vars

-----------------------------------------------------------------------------
(* Claims about the price store *)

\* the entries of a history file; a file that is absent or unreadable has none
Entries(h) == IF h.st = "ok" THEN h.data ELSE <<>>

\* a value the specification calls invalid: not a number, or negative
Invalid(v) == ~IsNumber(v) \/ v.n < 0

Updated == last.op = "update_prices"
Restored == last.op = "restore_prices_from_backup"

\* C1: an update_prices whose candidate map holds a non-numeric or negative
\* value returns failure and leaves get_prices(), the price file and the
\* history as they were.
C1_InvalidUpdateRejected ==
    [][ (last'.op = "update_prices" /\ \E k \in DOMAIN last'.cand : Invalid(last'.cand[k]))
        => (~last'.ok /\ prices' = prices /\ dataFile' = dataFile
            /\ historyFile' = historyFile) ]_vars

\* C2: every value get_prices() returns is a number >= 0.
C2_PricesNonNegativeNumbers ==
    pc = "ready" => \A k \in DOMAIN prices : IsNumber(prices[k]) /\ prices[k].n >= 0

C4_RestoreRoundTrip ==
    (Restored /\ last.ok /\ atBackup[last.suffix].taken)
        => prices = atBackup[last.suffix].prices

\* C5: restore_prices_from_backup with no backup file for the suffix returns
\* failure and leaves the store, the price file and the history unchanged.
C5_RestoreWithoutBackupFails ==
    [][ (last'.op = "restore_prices_from_backup" /\ ~Exists(backups[last'.suffix]))
        => (~last'.ok /\ pc' = pc /\ heap' = heap /\ self_prices' = self_prices
            /\ dataFile' = dataFile /\ historyFile' = historyFile) ]_vars

\* C5 witness: a restore that failed for one suffix while a backup exists
\* under the other suffix and the store holds prices.
C5_Witness ==
    /\ Restored /\ ~last.ok /\ ~Exists(backups[last.suffix])
    /\ \E s \in Suffixes : Exists(backups[s])
    /\ pc = "ready" /\ DOMAIN prices # {}

\* C6: a mapping obtained from get_prices() never changes afterwards.
C6_SnapshotIsolation ==
    handle.ref # 0 => heap[handle.ref] = handle.seen

\* a load has just run: in the constructor, or in a restore that got to it
Loaded == last.op = "load" \/ (Restored /\ (last.ok \/ pc = "failed"))

C8_MasterKeyNeverAPrice ==
    /\ pc = "ready" => MASTER_KEY \notin DOMAIN prices
    /\ (Updated /\ last.ok) =>
          (MASTER_KEY \in DOMAIN dataFile.data /\ dataFile.data[MASTER_KEY] = HEADER)

\* a history entry records the value v for the key k
Recorded(h, k, v) ==
    \E i \in DOMAIN Entries(h) :
        /\ k \in DOMAIN Entries(h)[i].archived_prices
        /\ Entries(h)[i].archived_prices[k] = v

C19_RestoreArchivesLiveState ==
    [][ (last'.op = "restore_prices_from_backup" /\ last'.ok /\ pc = "ready")
        => \A k \in DOMAIN prices : Recorded(historyFile', k, prices[k]) ]_vars

\* C21: an update_prices that succeeds merges: afterwards get_prices() maps
\* every key of the candidate map to the value the candidate gives it, every
\* other key the store had to the value it had, and has no other key.
C21_UpdateMerges ==
    [][ (last'.op = "update_prices" /\ last'.ok)
        => /\ DOMAIN prices' = (DOMAIN prices) \cup (DOMAIN last'.cand)
           /\ \A k \in DOMAIN last'.cand : prices'[k] = last'.cand[k]
           /\ \A k \in (DOMAIN prices) \ (DOMAIN last'.cand) : prices'[k] = prices[k] ]_vars

\* C21 witness: update({Y: 20}) on a store that holds X = 10: both are there
\* afterwards.
C21_Witness ==
    /\ Updated /\ last.ok /\ last.cand = ("Y" :> Num(20))
    /\ prices = ("X" :> Num(10)) @@ ("Y" :> Num(20))
    /\ <<"Y", Num(20)>> \in held /\ Entries(historyFile) = <<>>

-----------------------------------------------------------------------------
(* Claims about the price store when the file system may fail, under SpecIO *)

\* C22: when update_prices has returned success the merged store is in the
\* price file: the file holds the descriptive key and, besides it, exactly
\* the entries of get_prices(), so that loading the file gives get_prices().
C22_SuccessfulUpdateIsPersisted ==
    (Updated /\ last.ok /\ pc = "ready") =>
        /\ dataFile.st = "ok"
        /\ MASTER_KEY \in DOMAIN dataFile.data
        /\ DictDel(dataFile.data, MASTER_KEY) = prices
        /\ _load_prices(dataFile).prices = prices

\* the history holds the entry written at the time t, and it records the
\* value v for the key k
RecordedAt(h, t, k, v) ==
    \E i \in DOMAIN Entries(h) :
        /\ Entries(h)[i].timestamp = t
        /\ k \in DOMAIN Entries(h)[i].archived_prices
        /\ Entries(h)[i].archived_prices[k] = v

\* the price file holds the value v for the key k
FileHolds(f, k, v) == f.st = "ok" /\ k \in DOMAIN f.data /\ f.data[k] = v

\* C23: update_prices archives, then merges, then persists: whatever state
\* a call leaves, finished or interrupted between two steps, if the store
\* or the price file has got the new value of a key that the call
\* overwrites, the history has the entry of this call with the value the key
\* had before.
C23_ArchiveBeforeMergeAndPersist ==
    [][ (last'.op = "update_prices" /\ pc = "ready")
        => \A k \in (DOMAIN last'.cand) \cap (DOMAIN prices) :
               ( \/ (prices' # prices /\ prices'[k] = last'.cand[k])
                 \/ (dataFile' # dataFile /\ FileHolds(dataFile', k, last'.cand[k])) )
               => RecordedAt(historyFile', clock, k, prices[k]) ]_vars

\* the price entries of a file: its numbers, the descriptive key apart; a
\* file that cannot be read has none
PriceEntries(f) ==
    IF f.st = "ok"
    THEN [k \in {x \in (DOMAIN f.data) \ {MASTER_KEY} : IsNumber(f.data[x])} |-> f.data[k]]
    ELSE EmptyDict

\* C26: restore_prices_from_backup does all or nothing, whatever the backup
\* file holds and whatever fails: it returns success and get_prices() and
\* the price file both hold the price entries of the backup, or it returns
\* failure and get_prices() and the price file are what they were.
C26_RestoreAllOrNothing ==
    [][ (last'.op = "restore_prices_from_backup" /\ pc = "ready")
        => \/ /\ last'.ok /\ pc' = "ready"
              /\ prices' = PriceEntries(backups[last'.suffix])
              /\ PriceEntries(dataFile') = PriceEntries(backups[last'.suffix])
           \/ /\ ~last'.ok /\ pc' = "ready"
              /\ prices' = prices
              /\ dataFile' = dataFile ]_vars

-----------------------------------------------------------------------------
(* Claims about the cost functions, under SpecCost *)

\* quantity x unit_price of the i-th ingredient of a dish whose price the
\* snapshot holds, 0 for the others
LineCost(items, ingredient_prices, i) ==
    IF items[i].name \in DOMAIN ingredient_prices
    THEN items[i].quantity * ingredient_prices[items[i].name].n
    ELSE 0

\* the sum of LineCost over the positions in S
RECURSIVE SumLines(_, _, _)
SumLines(items, ingredient_prices, S) ==
    IF S = {} THEN 0
    ELSE LET i == CHOOSE x \in S : TRUE
         IN  LineCost(items, ingredient_prices, i)
             + SumLines(items, ingredient_prices, S \ {i})

DishCalculated == calc.fn = "dish"
CourseCalculated == calc.fn = "course"

\* C9: for a dish of the catalog, calculate_dish_cost returns the sum of
\* quantity x unit_price over the ingredients the snapshot prices, and one
\* detail line per ingredient, in the order of the dish definition.
C9_DishCostIsSumOfLines ==
    (DishCalculated /\ calc.id \in DOMAIN DISHES) =>
        LET items == DISHES[calc.id].ingredients
            details == calc.out.ingredient_details
        IN  /\ ~calc.raised
            /\ calc.out.total_cost = SumLines(items, snapshot, DOMAIN items)
            /\ Len(details) = Len(items)
            /\ \A i \in DOMAIN items :
                   /\ details[i].name = items[i].name
                   /\ details[i].quantity = items[i].quantity
                   /\ details[i].cost = LineCost(items, snapshot, i)

\* C9 witness: 前菜A with the prices of the test and no price for
\* トリュフオイル: 2170 yen, four detail lines.
C9_Witness ==
    /\ DishCalculated /\ calc.id = "zensai_A"
    /\ "truffle_oil" \notin DOMAIN snapshot
    /\ calc.out.total_cost = 2170 * YEN
    /\ Len(calc.out.ingredient_details) = 4

\* C10: an identifier that is not in the catalog is a lookup miss, not an
\* exception: calculate_dish_cost returns (0, []) and calculate_course_cost
\* returns None.
C10_UnknownIdIsLookupMiss ==
    /\ (DishCalculated /\ calc.id \notin DOMAIN DISHES) =>
           (~calc.raised /\ calc.out = [total_cost |-> 0, ingredient_details |-> <<>>])
    /\ (CourseCalculated /\ calc.id \notin DOMAIN COURSES) =>
           (~calc.raised /\ calc.out = None)

\* C10 witness: a course that the catalog does not define, asked for with
\* drinks and a snapshot that is not empty.
C10_Witness ==
    /\ CourseCalculated /\ calc.id \notin DOMAIN COURSES
    /\ calc.drinks # <<>> /\ snapshot # EmptyDict
    /\ calc.out = None

\* the positions of the ingredients the snapshot has a price for
Priced(items, ingredient_prices) ==
    {i \in DOMAIN items : items[i].name \in DOMAIN ingredient_prices}

\* what C11 says of one dish: a line for every ingredient without a price,
\* with cost 0 and the marker as unit_price, and a total made of the priced
\* ingredients alone
MissingPricesAreZero(items, ingredient_prices, total_cost, details) ==
    /\ Len(details) = Len(items)
    /\ \A i \in (DOMAIN items) \ Priced(items, ingredient_prices) :
           /\ details[i].name = items[i].name
           /\ details[i].cost = 0
           /\ details[i].unit_price = UNKNOWN_PRICE
    /\ total_cost = SumLines(items, ingredient_prices, Priced(items, ingredient_prices))

\* C11: an ingredient of a dish that has no price in the snapshot still has
\* its detail line, with cost 0 and the marker "単価不明" as unit_price; it
\* adds nothing to the total, and the calculation (of the dish, or of a
\* course that serves it) raises nothing.
C11_MissingPriceCostsNothing ==
    /\ (DishCalculated /\ calc.id \in DOMAIN DISHES) =>
           /\ ~calc.raised
           /\ MissingPricesAreZero(DISHES[calc.id].ingredients, snapshot,
                                   calc.out.total_cost, calc.out.ingredient_details)
    /\ (CourseCalculated /\ calc.id \in DOMAIN COURSES) =>
           /\ ~calc.raised
           /\ \A j \in DOMAIN COURSES[calc.id].dishes :
                  COURSES[calc.id].dishes[j] \in DOMAIN DISHES =>
                      MissingPricesAreZero(DISHES[COURSES[calc.id].dishes[j]].ingredients,
                                           snapshot, calc.out.dishes_cost[j].cost,
                                           calc.out.dishes_cost[j].ingredients)

\* C11 witness: コースA calculated from the prices of the test without バター,
\* which three of its dishes use: every dish has its lines, the butter lines
\* cost nothing, and the course costs less than with butter.
C11_Witness ==
    /\ CourseCalculated /\ calc.id = "course_A" /\ ~calc.raised
    /\ snapshot = SnapshotOf(PRICES_A_HIGH, {"butter"})
    /\ calc.out.dishes_cost[1].ingredients[4].unit_price = UNKNOWN_PRICE
    /\ calc.out.dishes_cost[1].ingredients[4].cost = 0
    /\ calc.out.dishes_cost[1].cost = 2225 * YEN

\* the sum of the field cost over the entries of a list
RECURSIVE SumCosts(_)
SumCosts(entries) ==
    IF entries = <<>> THEN 0 ELSE Head(entries).cost + SumCosts(Tail(entries))

\* C12: for a course of the catalog, dishes_cost has one entry per dish
\* identifier of the course, in the order of its dish list; the cost of each
\* entry is what calculate_dish_cost gives for that dish, and subtotal_cost
\* is the sum of these costs; a dish identifier DISHES does not define gets
\* an entry of cost 0 without ingredients, and the calculation goes on.
C12_CourseSubtotalIsSumOfDishes ==
    (CourseCalculated /\ calc.id \in DOMAIN COURSES) =>
        LET dish_ids == COURSES[calc.id].dishes
            entries == calc.out.dishes_cost
        IN  /\ ~calc.raised
            /\ Len(entries) = Len(dish_ids)
            /\ \A j \in DOMAIN dish_ids :
                   /\ entries[j].cost = calculate_dish_cost(dish_ids[j], snapshot).total_cost
                   /\ entries[j].ingredients
                        = calculate_dish_cost(dish_ids[j], snapshot).ingredient_details
                   /\ dish_ids[j] \notin DOMAIN DISHES =>
                          (entries[j].cost = 0 /\ entries[j].ingredients = <<>>)
            /\ calc.out.subtotal_cost = SumCosts(entries)

\* C12 witness: the course whose second dish is not defined, with the prices
\* of the test: three entries, the second one empty, and a subtotal made of
\* the two others.
C12_Witness ==
    /\ CourseCalculated /\ calc.id = "course_GHOST_DISH" /\ ~calc.raised
    /\ calc.id \in DOMAIN COURSES
    /\ snapshot = SnapshotOf(PRICES_A_HIGH, {"butter"})
    /\ Len(calc.out.dishes_cost) = 3
    /\ calc.out.dishes_cost[2].cost = 0
    /\ calc.out.dishes_cost[2].ingredients = <<>>
    /\ calc.out.dishes_cost[3].cost > 0
    /\ calc.out.subtotal_cost = calc.out.dishes_cost[1].cost + calc.out.dishes_cost[3].cost

\* the rule of a course of the catalog: the one its discount_rule names, the
\* rule "none" when it names none that exists
RuleOf(course_id) ==
    IF "discount_rule" \in DOMAIN COURSES[course_id]
       /\ COURSES[course_id].discount_rule \in DOMAIN DISCOUNT_RULES
    THEN DISCOUNT_RULES[COURSES[course_id].discount_rule]
    ELSE DISCOUNT_RULES["none"]

\* C13: the type of the rule of the course decides the discount. A
\* percentage rule applies iff subtotal_cost >= 5000 yen (5000 included),
\* with discount_amount = subtotal_cost x value / 100 when it applies and 0
\* when it does not; a fixed rule always applies, with discount_amount the
\* value of the rule; any other type gives 0 and applied = False; and
\* total_food_cost = subtotal_cost - discount_amount.
C13_DiscountFollowsRuleType ==
    (CourseCalculated /\ calc.id \in DOMAIN COURSES /\ ~calc.raised) =>
        LET rule == RuleOf(calc.id)
            subtotal == calc.out.subtotal_cost
            info == calc.out.discount_info
        IN  /\ rule.type = "percentage" =>
                   /\ info.applied <=> (subtotal >= 5000 * YEN)
                   /\ info.applied => info.discount_amount * 100 = subtotal * rule.value
                   /\ ~info.applied => info.discount_amount = 0
            /\ rule.type = "fixed" =>
                   (info.applied /\ info.discount_amount = rule.value * YEN)
            /\ rule.type \notin {"percentage", "fixed"} =>
                   (~info.applied /\ info.discount_amount = 0)
            /\ calc.out.total_food_cost = subtotal - info.discount_amount

\* C13 witness: コースA at a subtotal of exactly 5000 yen: 5 % off, 4750 yen.
C13_Witness ==
    /\ CourseCalculated /\ calc.id = "course_A" /\ ~calc.raised
    /\ calc.out.subtotal_cost = 5000 * YEN
    /\ calc.out.discount_info.applied
    /\ calc.out.discount_info.discount_amount = 250 * YEN
    /\ calc.out.total_food_cost = 4750 * YEN

\* DRINKS defines the drink
Resolves(drink_id) == drink_id \in DOMAIN DRINKS

\* the sum of the field price over the entries of a list
RECURSIVE SumPrices(_)
SumPrices(entries) ==
    IF entries = <<>> THEN 0 ELSE Head(entries).price + SumPrices(Tail(entries))

\* C14: selected_drinks_info lists the selected drinks DRINKS defines, in
\* the order they were given and once for every time they were given,
\* whether or not the course offers them; the others are left out and
\* nothing is raised; drinks_total_cost is the sum of the prices listed, and
\* total_cost = total_food_cost + drinks_total_cost.
C14_DrinksAddedInInputOrder ==
    (CourseCalculated /\ calc.id \in DOMAIN COURSES) =>
        LET resolved == SelectSeq(calc.drinks, Resolves)
            info == calc.out.selected_drinks_info
        IN  /\ ~calc.raised
            /\ Len(info) = Len(resolved)
            /\ \A i \in DOMAIN resolved :
                   /\ info[i].name = DRINKS[resolved[i]].name
                   /\ info[i].price = DRINKS[resolved[i]].price * YEN
            /\ calc.out.drinks_total_cost = SumPrices(info)
            /\ calc.out.total_cost = calc.out.total_food_cost + calc.out.drinks_total_cost

\* C14 witness: red wine twice with a course that offers beer only: two
\* lines, 1600 yen of drinks on top of the food.
C14_Witness ==
    /\ CourseCalculated /\ calc.id = "course_GHOST_DISH" /\ calc.id \in DOMAIN COURSES
    /\ calc.drinks = <<"WINE_RED", "WINE_RED">>
    /\ COURSES[calc.id].available_drinks = <<"BEER">>
    /\ Len(calc.out.selected_drinks_info) = 2
    /\ calc.out.drinks_total_cost = 1600 * YEN
    /\ calc.out.total_food_cost > 0
    /\ calc.out.total_cost = calc.out.total_food_cost + 1600 * YEN

\* C20: a course whose discount_rule names no rule of DISCOUNT_RULES, or
\* that declares no discount_rule, is calculated with the rule "none":
\* discount_amount 0, applied False, the condition text of "none", and
\* nothing raised.
C20_UnknownRuleFallsBackToNone ==
    (CourseCalculated /\ calc.id \in DOMAIN COURSES
     /\ ("discount_rule" \notin DOMAIN COURSES[calc.id]
         \/ COURSES[calc.id].discount_rule \notin DOMAIN DISCOUNT_RULES)) =>
        /\ ~calc.raised
        /\ calc.out.discount_info.discount_amount = 0
        /\ ~calc.out.discount_info.applied
        /\ calc.out.discount_info.condition = DISCOUNT_RULES["none"].condition
        /\ calc.out.total_food_cost = calc.out.subtotal_cost

\* C20 witness: the course whose rule is not defined, at the high prices of
\* the test, where the standard rule would have taken 5 % off.
C20_Witness ==
    /\ CourseCalculated /\ calc.id = "course_LOST_RULE" /\ calc.id \in DOMAIN COURSES
    /\ COURSES[calc.id].discount_rule \notin DOMAIN DISCOUNT_RULES
    /\ calc.out.subtotal_cost >= 5000 * YEN
    /\ calc.out.discount_info.rule_id = "sonzai_shinai_rule"
    /\ calc.out.discount_info.condition = "no discount"
    /\ calc.out.total_food_cost = calc.out.subtotal_cost

Range(list) == {list[i] : i \in DOMAIN list}

\* C16: validate_ingredient_data returns as missing_in_prices the names of
\* used_ingredients that are not in defined_prices, and as unused_in_dishes
\* the names of defined_prices that are not in used_ingredients; the two
\* have no name in common, and the two sets given are left as they were.
C16_AuditIsSetDifference ==
    audit.called =>
        LET missing == audit.after.result.missing_in_prices
            unused == audit.after.result.unused_in_dishes
        IN  /\ Range(missing) = audit.used_ingredients \ audit.defined_prices
            /\ Len(missing) = Cardinality(audit.used_ingredients \ audit.defined_prices)
            /\ Range(unused) = audit.defined_prices \ audit.used_ingredients
            /\ Len(unused) = Cardinality(audit.defined_prices \ audit.used_ingredients)
            /\ Range(missing) \cap Range(unused) = {}
            /\ audit.after.used_ingredients = audit.used_ingredients
            /\ audit.after.defined_prices = audit.defined_prices

\* C16 witness: the ingredients of all the dishes against the low prices of
\* the test: the five ingredients only course B uses are missing, item_a is
\* unused.
C16_Witness ==
    /\ audit.called
    /\ audit.used_ingredients = get_all_ingredients_from_dishes(DISHES)
    /\ audit.defined_prices = DOMAIN PRICES_A_LOW
    /\ audit.after.result.missing_in_prices
         = <<"caviar", "chocolate", "foie_gras", "rosemary", "kohitsuji_niku">>
    /\ audit.after.result.unused_in_dishes = <<"item_a">>

\* C24: with a snapshot whose prices are all >= 0, complete or not, the
\* discount of a course of the catalog is never more than its subtotal:
\* 0 <= discount_amount <= subtotal_cost, and so total_food_cost >= 0 and
\* total_cost >= 0.
C24_DiscountWithinSubtotal ==
    (CourseCalculated /\ calc.id \in DOMAIN COURSES /\ ~calc.raised
     /\ \A k \in DOMAIN snapshot : IsNumber(snapshot[k]) /\ snapshot[k].n >= 0) =>
        /\ 0 <= calc.out.discount_info.discount_amount
        /\ calc.out.discount_info.discount_amount <= calc.out.subtotal_cost
        /\ calc.out.total_food_cost >= 0
        /\ calc.out.total_cost >= 0

\* C25: the audit gates the calculation: on a mapping that
\* load_ingredient_prices returned, when validate_ingredient_data reports no
\* ingredient of the dishes as missing, calculate_dish_cost finds a price
\* for every line of every dish; and every ingredient it reports as missing
\* has the marker as unit_price in every dish that uses it.
C25_AuditGatesCalculation ==
    (DishCalculated /\ audit.called /\ calc.id \in DOMAIN DISHES) =>
        LET missing == Range(audit.after.result.missing_in_prices)
            items == DISHES[calc.id].ingredients
            details == calc.out.ingredient_details
        IN  /\ missing = {} =>
                   /\ ~calc.raised
                   /\ Len(details) = Len(items)
                   /\ \A i \in DOMAIN details : details[i].unit_price # UNKNOWN_PRICE
            /\ ~calc.raised =>
                   \A i \in DOMAIN items :
                       items[i].name \in missing => details[i].unit_price = UNKNOWN_PRICE

====
